---- MODULE Spec2Model ----
(***************************************************************************)
(* Model of the patch tokenizer img_to_patch and of                        *)
(* VisionTransformer.forward in cv/cs197-F2022L5/harvard_ViT.ipynb.        *)
(*                                                                         *)
(* A tensor is a record [shape, data]: shape is the tuple of axis sizes    *)
(* and data the elements in logical row-major order.  Indices are 0-based  *)
(* as in the source; TLA+ sequences are 1-based, hence the +1 / -1.        *)
(***************************************************************************)
EXTENDS Integers, Sequences, FiniteSets, TLC

VARIABLES x, patch_size, flatten_channels, num_channels, num_patches,
          x_after, result, out

vars == <<x, patch_size, flatten_channels, num_channels, num_patches,
          x_after, result, out>>

\* ---------------------------------------------------------------- bounds
MaxB == 2
MaxC == 2
MaxDim == 4
MaxP == 3
MaxPatches == 4

\* ------------------------------------------------------- index arithmetic
RECURSIVE Prod(_)
Prod(s) == IF s = <<>> THEN 1 ELSE s[1] * Prod(Tail(s))

Min(a, b) == IF a < b THEN a ELSE b

\* flat row-major offset of the 0-based multi-index idx in a tensor of shape shp
RECURSIVE RavelN(_, _, _)
RavelN(idx, shp, n) ==
    IF n = 0 THEN 0 ELSE RavelN(idx, shp, n - 1) * shp[n] + idx[n]

Ravel(idx, shp) == RavelN(idx, shp, Len(shp))

\* 0-based multi-index of the flat offset f in a tensor of shape shp
Unravel(f, shp) ==
    [k \in 1..Len(shp) |->
        (f \div Prod(SubSeq(shp, k + 1, Len(shp)))) % shp[k]]

At(t, idx) == t.data[Ravel(idx, t.shape) + 1]

Numel(t) == Prod(t.shape)

Error(what) == [kind |-> "error", what |-> what]

\* ------------------------------------------------------ tensor primitives
\* torch.div(a, b, rounding_mode="trunc") on non-negative sizes, taken by its
\* documented meaning: the quotient rounded toward zero
TruncDiv(a, b) == a \div b

\* Tensor.reshape: same elements in the same row-major order, new shape;
\* fails when the element counts differ
reshape(t, shp) ==
    IF Prod(shp) # Numel(t)
    THEN Error("shape")
    ELSE [kind |-> "tensor", shape |-> shp, data |-> t.data]

\* Tensor.permute(dims): axis k of the result is axis dims[k] of the input
permute(t, dims) ==
    LET shp == [k \in 1..Len(dims) |-> t.shape[dims[k] + 1]]
        src(m) == [a \in 1..Len(dims) |->
                      m[CHOOSE k \in 1..Len(dims) : dims[k] + 1 = a]]
    IN [kind  |-> "tensor",
        shape |-> shp,
        data  |-> [f \in 1..Prod(shp) |->
                      t.data[Ravel(src(Unravel(f - 1, shp)), t.shape) + 1]]]

\* variant: end_dim taken as exclusive
flatten_excl(t, start_dim, end_dim) ==
    [kind  |-> "tensor",
     shape |-> SubSeq(t.shape, 1, start_dim)
                 \o <<Prod(SubSeq(t.shape, start_dim + 1, end_dim))>>
                 \o SubSeq(t.shape, end_dim + 1, Len(t.shape)),
     data  |-> t.data]

\* Tensor.flatten(start_dim, end_dim): merge axes start_dim..end_dim
flatten(t, start_dim, end_dim) ==
    [kind  |-> "tensor",
     shape |-> SubSeq(t.shape, 1, start_dim)
                 \o <<Prod(SubSeq(t.shape, start_dim + 1, end_dim + 1))>>
                 \o SubSeq(t.shape, end_dim + 2, Len(t.shape)),
     data  |-> t.data]

\* ----------------------------------------------------------- img_to_patch
\* variant: only the last two axes are read, leading axes are folded
Unpack_lenient(shape) ==
    IF Len(shape) < 2
    THEN Error("unpack")
    ELSE [kind |-> "ok", B |-> 1,
          C |-> Prod(SubSeq(shape, 1, Len(shape) - 2)),
          W |-> shape[Len(shape) - 1], H |-> shape[Len(shape)]]

\* B, C, W, H = x.shape: fails unless x has exactly 4 axes
Unpack(shape) ==
    IF Len(shape) # 4
    THEN Error("unpack")
    ELSE [kind |-> "ok",
          B |-> shape[1], C |-> shape[2], W |-> shape[3], H |-> shape[4]]

\* variant: the two within-patch axes exchanged
PermuteDims_swapped == <<0, 2, 4, 1, 5, 3>>

\* the axis order handed to permute
PermuteDims == <<0, 2, 4, 1, 3, 5>>

\* variant: pixel-major instead of channel-major feature order
FlattenChannels_pixelmajor(t) == flatten(permute(t, <<0, 1, 3, 4, 2>>), 2, 4)

\* the final optional merge of channel and within-patch axes
FlattenChannels(t) == flatten(t, 2, 4)

img_to_patch(t, P, flat) ==
    LET d == Unpack(t.shape)
    IN IF d.kind = "error"
       THEN d
       ELSE LET r == reshape(t, <<d.B, d.C, TruncDiv(d.H, P), P,
                                  TruncDiv(d.W, P), P>>)
            IN IF r.kind = "error"
               THEN r
               ELSE LET p == permute(r, PermuteDims)
                        f == flatten(p, 1, 2)
                    IN IF flat THEN FlattenChannels(f) ELSE f

\* variant: the reshape done in place on the caller's tensor
CallerTensor_inplace(t, P, flat) ==
    [shape |-> <<Numel(t)>>, data |-> t.data]

\* the tensor the caller still holds after the call: img_to_patch only
\* rebinds its local name x and uses no in-place operation
CallerTensor(t, P, flat) == t

\* ------------------------------------------------ VisionTransformer.forward
\* variant: class token appended after the patch tokens
CatTokens_appended(cls_row, patch_row) == patch_row \o cls_row

\* torch.cat([cls_token, x], dim=1) on one image's token row
CatTokens(cls_row, patch_row) == cls_row \o patch_row

\* self.pos_embedding[:, : T + 1] as the list of position ids it holds
PosSlice(T, np) == [s \in 1..Min(T + 1, 1 + np) |-> s - 1]

\* cls = x[0] after the transpose to (sequence, batch, embed)
ClsOf(seq) == seq[1]

\* self.transformer: every AttentionBlock maps a (sequence, batch, embed)
\* tensor to one of the same shape, position s of the output continuing the
\* residual stream of position s of the input
transformer(seq) == seq

forward(t, P, nc, np) ==
    LET tok == img_to_patch(t, P, TRUE)
    IN IF tok.kind = "error"
       THEN tok
       ELSE LET B == tok.shape[1]
                T == tok.shape[2]
                F == tok.shape[3]
            IN IF F # nc * (P * P)
               THEN Error("input_layer")
               ELSE LET emb == [b \in 1..B |-> [k \in 1..T |->
                                  [tok |-> "patch", img |-> b - 1, idx |-> k - 1]]]
                        cls_token == [b \in 1..B |->
                                  <<[tok |-> "cls", img |-> b - 1, idx |-> 0]>>]
                        cat == [b \in 1..B |-> CatTokens(cls_token[b], emb[b])]
                        pos == PosSlice(T, np)
                    IN IF Len(pos) # T + 1 /\ Len(pos) # 1
                       THEN Error("broadcast")
                       ELSE LET withpos == [b \in 1..B |-> [s \in 1..(T + 1) |->
                                    [tok |-> cat[b][s].tok,
                                     img |-> cat[b][s].img,
                                     idx |-> cat[b][s].idx,
                                     pos |-> IF Len(pos) = 1 THEN pos[1]
                                                             ELSE pos[s]]]]
                                seq == [s \in 1..(T + 1) |-> [b \in 1..B |->
                                           withpos[b][s]]]
                            IN [kind |-> "ok", B |-> B, T |-> T,
                                seq |-> seq, pos_len |-> Len(pos),
                                cls |-> ClsOf(transformer(seq))]

\* ---------------------------------------------------------------- inputs
Fills == {"iota", "mod3"}

Fill(kind, n) ==
    [i \in 1..n |-> IF kind = "iota" THEN i ELSE i % 3]

\* 4-axis batches; an empty batch (B = 0) is a legal tensor
Shapes4 ==
    {<<b, c, h, w>> : b \in 0..MaxB, c \in 1..MaxC,
                      h \in 1..MaxDim, w \in 1..MaxDim}

\* inputs that are not 4-axis batches: a single (C, H, W) image, a 5-axis array
ShapesOther ==
    {<<c, h, w>> : c \in 1..2, h \in 1..2, w \in 1..2}
    \cup {<<a, b, c, h, w>> : a \in 1..2, b \in 1..2, c \in 1..2,
                              h \in {2}, w \in {2}}

Shapes == Shapes4 \cup ShapesOther

Tensor(shp, kind) == [shape |-> shp, data |-> Fill(kind, Prod(shp))]

None == [kind |-> "none"]

Init ==
    /\ \E shp \in Shapes, kind \in Fills : x = Tensor(shp, kind)
    /\ patch_size \in 1..MaxP
    /\ flatten_channels \in BOOLEAN
    /\ num_channels \in 1..MaxC
    /\ num_patches \in 0..MaxPatches
    /\ x_after = None
    /\ result = None
    /\ out = None

\* img_patches = img_to_patch(x, patch_size, flatten_channels)
Call ==
    /\ result = None
    /\ result' = img_to_patch(x, patch_size, flatten_channels)
    /\ x_after' = CallerTensor(x, patch_size, flatten_channels)
    /\ UNCHANGED <<x, patch_size, flatten_channels, num_channels,
                   num_patches, out>>

\* out = model(x) with self.patch_size = patch_size
Forward ==
    /\ out = None
    /\ out' = forward(x, patch_size, num_channels, num_patches)
    /\ UNCHANGED <<x, patch_size, flatten_channels, num_channels,
                   num_patches, x_after, result>>

Next == Call \/ Forward

Spec == Init /\ [][Next]_vars

\* ------------------------------------------------------------ vocabulary
\* the axes of the input as the documentation names them:
\* (batch, channel, height, width)
Is4 == Len(x.shape) = 4
ImgB == x.shape[1]
ImgC == x.shape[2]
ImgH == x.shape[3]
ImgW == x.shape[4]
GridH == ImgH \div patch_size
GridW == ImgW \div patch_size

Called == result # None
Divisible == Is4 /\ ImgH % patch_size = 0 /\ ImgW % patch_size = 0
NonEmpty == Is4 /\ Numel(x) > 0
IsIota == x.data = Fill("iota", Numel(x))

\* the notebook's configuration: 32x32 RGB images, patch_size 4, 64 patches
NotebookPatchSize == 4
NotebookNumPatches == 64
NotebookImage == 32
ExampleBatch == Tensor(<<2, 3, NotebookImage, NotebookImage>>, "iota")
ExampleGrid == img_to_patch(ExampleBatch, NotebookPatchSize, FALSE)
ExampleFlat == img_to_patch(ExampleBatch, NotebookPatchSize, TRUE)

\* ----------------------------------------------------------------- claims
\* C1: for a 4-axis batch whose height and width are both divisible by the
\* patch size (height and width may differ), the grid output has shape
\* (B, (H/P)*(W/P), C, P, P) and the flattened output has shape
\* (B, (H/P)*(W/P), C*P*P); (2, 3, 32, 32) with P = 4 gives (2, 64, 3, 4, 4)
\* and (2, 64, 48).
C1_OutputShape ==
    /\ (Called /\ Divisible) =>
          /\ result.kind = "tensor"
          /\ result.shape =
                IF flatten_channels
                THEN <<ImgB, GridH * GridW, ImgC * patch_size * patch_size>>
                ELSE <<ImgB, GridH * GridW, ImgC, patch_size, patch_size>>
    /\ ExampleGrid.shape = <<2, 64, 3, 4, 4>>
    /\ ExampleFlat.shape = <<2, 64, 48>>

C1_Witness ==
    /\ Called /\ Divisible /\ NonEmpty
    /\ ImgH # ImgW /\ GridH > 1 /\ patch_size > 1
    /\ flatten_channels
    /\ result.kind = "tensor"

\* C2: the grid output enumerates patches row-major over the patch grid,
\* y[b, i*(W/P)+j, c, u, v] = x[b, c, i*P+u, j*P+v], for every divisible
\* height and width, equal or not.
C2_RowMajorPatches ==
    (Called /\ Divisible /\ ~flatten_channels) =>
        /\ result.kind = "tensor"
        /\ \A b \in 0..(ImgB - 1), c \in 0..(ImgC - 1),
              i \in 0..(GridH - 1), j \in 0..(GridW - 1),
              u \in 0..(patch_size - 1), v \in 0..(patch_size - 1) :
              At(result, <<b, i * GridW + j, c, u, v>>)
                 = At(x, <<b, c, i * patch_size + u, j * patch_size + v>>)

\* C3: a 4-axis batch whose height or width is not divisible by the patch
\* size makes img_to_patch fail, whatever B and C are; no tensor is returned.
C3_NonDivisibleFails ==
    (Called /\ Is4 /\ ~Divisible) => result.kind = "error"

\* C4: splitting the patch axis of the grid output back into (H/P, W/P),
\* moving the axes back to (B, C, H/P, P, W/P, P) and merging them into
\* (B, C, H, W) reproduces the input element for element.
Reassemble(y) ==
    LET g == reshape(y, <<ImgB, GridH, GridW, ImgC, patch_size, patch_size>>)
        q == permute(g, <<0, 3, 1, 4, 2, 5>>)
    IN reshape(q, <<ImgB, ImgC, ImgH, ImgW>>)

C4_RoundTrip ==
    (Called /\ Divisible /\ ~flatten_channels) =>
        /\ result.kind = "tensor"
        /\ Reassemble(result).kind = "tensor"
        /\ Reassemble(result).data = x.data

\* C5: the patches partition the image: every pixel appears at exactly one
\* output position, with its batch and channel index kept, and every patch
\* is a contiguous P x P block of the image.
C5_Partition ==
    (Called /\ Divisible /\ ~flatten_channels /\ IsIota) =>
        /\ result.kind = "tensor"
        /\ \A p \in 1..Numel(x) :
              Cardinality({f \in 1..Len(result.data) : result.data[f] = p}) = 1
        /\ \A b \in 0..(ImgB - 1), k \in 0..(GridH * GridW - 1) :
              \E h0 \in 0..(ImgH - patch_size), w0 \in 0..(ImgW - patch_size) :
                 \A c \in 0..(ImgC - 1),
                    u \in 0..(patch_size - 1), v \in 0..(patch_size - 1) :
                    At(result, <<b, k, c, u, v>>)
                       = At(x, <<b, c, h0 + u, w0 + v>>)

\* C6: the flattened feature axis is ordered channel, then row within the
\* patch, then column within the patch:
\* flat[b, k, c*P*P + u*P + v] = grid[b, k, c, u, v].
C6_FeatureOrder ==
    (Called /\ Divisible /\ flatten_channels) =>
        LET grid == img_to_patch(x, patch_size, FALSE)
        IN /\ result.kind = "tensor"
           /\ grid.kind = "tensor"
           /\ \A b \in 0..(ImgB - 1), k \in 0..(GridH * GridW - 1),
                 c \in 0..(ImgC - 1),
                 u \in 0..(patch_size - 1), v \in 0..(patch_size - 1) :
                 At(result, <<b, k, c * patch_size * patch_size
                                      + u * patch_size + v>>)
                    = At(grid, <<b, k, c, u, v>>)

C6_Witness ==
    /\ Called /\ Divisible /\ NonEmpty /\ IsIota
    /\ flatten_channels
    /\ ImgC > 1 /\ patch_size > 1 /\ GridH * GridW > 1
    /\ result.kind = "tensor"

\* C7: an input that does not have exactly 4 axes makes img_to_patch fail
\* for every patch size; no tensor is returned.
C7_ArityFails ==
    (Called /\ ~Is4) => result.kind = "error"

C7_Witness ==
    /\ Called /\ Len(x.shape) = 3
    /\ x.shape[2] % patch_size = 0 /\ x.shape[3] % patch_size = 0
    /\ result.kind = "error"

C9_SinglePatch ==
    (Called /\ Is4 /\ ImgH = patch_size /\ ImgW = patch_size) =>
        /\ result.kind = "tensor"
        /\ result.shape[1] = ImgB
        /\ result.shape[2] = 1
        /\ \A b \in 0..(ImgB - 1), c \in 0..(ImgC - 1),
              u \in 0..(patch_size - 1), v \in 0..(patch_size - 1) :
              At(x, <<b, c, u, v>>) =
                 IF flatten_channels
                 THEN At(result, <<b, 0, c * ImgH * ImgW + u * ImgW + v>>)
                 ELSE At(result, <<b, 0, c, u, v>>)
        /\ flatten_channels =>
              result.shape[3] = ImgC * patch_size * patch_size

C9_Witness ==
    /\ Called /\ NonEmpty /\ IsIota
    /\ ImgH = patch_size /\ ImgW = patch_size /\ patch_size > 1
    /\ ImgB > 1 /\ ImgC > 1
    /\ result.kind = "tensor" /\ result.shape[2] = 1

\* C10: when forward gets T patch tokens with T <= num_patches, the sequence
\* given to the transformer has length T+1, the class token at index 0
\* followed by the T patch tokens in patch-index order, the positional
\* slice has T+1 positions, and the classification head receives the vector
\* at sequence index 0 for every image; in the notebook's configuration
\* T = num_patches = 64.
C10_ClassTokenFirst ==
    /\ (out.kind = "ok" /\ out.T <= num_patches) =>
          /\ out.T = GridH * GridW
          /\ out.B = ImgB
          /\ Len(out.seq) = out.T + 1
          /\ out.pos_len = out.T + 1
          /\ Len(out.cls) = out.B
          /\ \A b \in 1..out.B :
                /\ out.seq[1][b].tok = "cls"
                /\ out.seq[1][b].img = b - 1
                /\ out.seq[1][b].pos = 0
                /\ out.cls[b] = out.seq[1][b]
                /\ \A k \in 1..out.T :
                      out.seq[k + 1][b] =
                         [tok |-> "patch", img |-> b - 1, idx |-> k - 1,
                          pos |-> k]
    /\ ExampleFlat.shape[2] = NotebookNumPatches

C10_Witness ==
    /\ out.kind = "ok" /\ out.B > 1 /\ out.T > 1 /\ out.T <= num_patches
    /\ out.cls[2].tok = "cls"

====
